---- MODULE Spec2Model ----
(***************************************************************************)
(* A model of the commerce backend (src/app.py, src/models.py).            *)
(*                                                                         *)
(* The state is the database: one set of rows per table of models.py,      *)
(* plus the last request served and the response it got.  Every route      *)
(* handler of app.py that writes is one action; it takes the identity of   *)
(* the bearer token and the JSON payload as parameters.  A payload is a    *)
(* function from field names to values, so that `'f' in data` of the code  *)
(* is `"f" \in DOMAIN data` here.  Requests are served one at a time, each *)
(* in its own database session; the specifications of the last sections    *)
(* let the statements of two requests interleave, and `sessions` holds     *)
(* what each request in flight has read and written but not committed.     *)
(*                                                                         *)
(* Money is counted in cents (the columns are Numeric(10, 2)).  Primary    *)
(* keys are handed out as the largest key of the table plus one, which is  *)
(* what the default database of app.py:21 (SQLite, INTEGER PRIMARY KEY)    *)
(* does.                                                                   *)
(***************************************************************************)
EXTENDS Integers, Sequences, FiniteSets, TLC

VARIABLES users, categories, products, addresses, cart_items, orders,
          order_items, reviews, req, resp, served, sessions

vars == <<users, categories, products, addresses, cart_items, orders,
          order_items, reviews, req, resp, served, sessions>>

-----------------------------------------------------------------------------
(* Bounds of the model.                                                    *)

\* number of requests served in a run
MaxRequests == 5
\* largest quantity a cart item may reach (cart_item.quantity += quantity is unbounded)
MaxQuantity == 2

\* unit prices, in cents
Prices == {550, 1000}
\* stock levels an administrator sets
Stocks == {0, 1, 2}

-----------------------------------------------------------------------------
(* Rows and queries.                                                       *)

Ids(table) == {r.id : r \in table}

Max(S) == CHOOSE m \in S : \A n \in S : n <= m

\* the key the database gives to the next row of a table
NextId(table) == IF table = {} THEN 1 ELSE Max(Ids(table)) + 1

\* Model.query.get(id): the row or None
HasRow(table, id) == \E r \in table : r.id = id

Row(table, id) == CHOOSE r \in table : r.id = id

\* query.first() of a set of matching rows: the one of lowest key
First(rows) == CHOOSE r \in rows : \A s \in rows : r.id <= s.id

\* query.all(): the rows in key order
RECURSIVE All(_)
All(rows) ==
    IF rows = {} THEN <<>>
    ELSE LET r == First(rows) IN <<r>> \o All(rows \ {r})

\* the table with one row replaced by a new version of it
Replace(table, old, new) == (table \ {old}) \cup {new}

\* jsonify(...), status: the status code, the 'error' or 'message' text and
\* the key of the row the body names (0 when it names none)
Response(status, text, id) == [status |-> status, text |-> text, id |-> id]

Request(op, user_id) == [op |-> op, user_id |-> user_id]

\* a request is taken up: it is the last request, and one more is served
Take(op, user_id) ==
    /\ served < MaxRequests
    /\ served' = served + 1
    /\ req' = Request(op, user_id)

\* a request served from its first statement to its last with no statement
\* of another request in between
Serve(op, user_id) ==
    /\ Take(op, user_id)
    /\ UNCHANGED sessions


-----------------------------------------------------------------------------
(* The state a deployment starts from.  No route creates an administrator  *)
(* (User.is_admin defaults to False and no handler writes it), so the      *)
(* users table holds one administrator and one shopper from the start.     *)

\* User.set_password(password): the row with the hash of the password
Hashed(password) == [hash_of |-> password]

SeedUsers ==
    {[id |-> 1, is_admin |-> TRUE, username |-> "admin", email |-> "admin@shop",
      password |-> Hashed("pw1"), first_name |-> "", last_name |-> ""],
     [id |-> 2, is_admin |-> FALSE, username |-> "shopper", email |-> "shopper@shop",
      password |-> Hashed("pw2"), first_name |-> "", last_name |-> ""]}

UserIds == {1, 2}

\* one category, two active products in it, one address per user
SeedCategories == {[id |-> 1, name |-> "c1"]}

SeedProducts ==
    {[id |-> 1, price |-> 1000, stock |-> 2, is_active |-> TRUE, category_id |-> 1],
     [id |-> 2, price |-> 550, stock |-> 1, is_active |-> TRUE, category_id |-> 1]}

SeedAddresses ==
    {[id |-> 1, user_id |-> 1, is_default |-> TRUE],
     [id |-> 2, user_id |-> 2, is_default |-> TRUE]}

NoRequest == Request("none", 0)

\* the requests that can be in flight together, and a worker with none
Sessions == {1, 2}

Idle == [pc |-> "idle"]

NoResponse == Response(0, "", 0)

\* the shop: a catalog and addresses in place, empty carts, no orders
Init ==
    /\ users = SeedUsers
    /\ categories = SeedCategories
    /\ products = SeedProducts
    /\ addresses = SeedAddresses
    /\ cart_items = {}
    /\ orders = {}
    /\ order_items = {}
    /\ reviews = {}
    /\ req = NoRequest
    /\ resp = NoResponse
    /\ served = 0
    /\ sessions = [s \in Sessions |-> Idle]

-----------------------------------------------------------------------------
(* Cart routes.                                                            *)

\* a stock check that lets one unit too many through
StockShortByTwo(product, quantity) == product.stock + 1 < quantity

\* product.stock < quantity: the stock check of add_to_cart, update_cart_item
\* and create_order
StockShort(product, quantity) == product.stock < quantity

\* CartItem.query.filter_by(user_id=..., product_id=...)
CartItemsOf(user_id) == {c \in cart_items : c.user_id = user_id}

CartItemFor(user_id, product_id) ==
    {c \in cart_items : c.user_id = user_id /\ c.product_id = product_id}

\* the cart items of that id, whoever owns them
CartItemOfAnyone(item_id, user_id) ==
    {c \in cart_items : c.id = item_id}

\* CartItem.query.filter_by(id=item_id, user_id=current_user_id)
OwnCartItem(item_id, user_id) ==
    {c \in cart_items : c.id = item_id /\ c.user_id = user_id}

\* an add that inserts a row whether or not the user has the product
CartAfterAddInserts(user_id, product_id, quantity) ==
    cart_items \cup
        {[id |-> NextId(cart_items), user_id |-> user_id,
          product_id |-> product_id, quantity |-> quantity]}

\* the cart after an add: the quantity of the user's item for the product
\* grows, or a new item is inserted
CartAfterAdd(user_id, product_id, quantity) ==
    LET existing == CartItemFor(user_id, product_id) IN
    IF existing # {}
    THEN LET cart_item == First(existing) IN
         Replace(cart_items, cart_item,
                 [cart_item EXCEPT !.quantity = @ + quantity])
    ELSE cart_items \cup
            {[id |-> NextId(cart_items), user_id |-> user_id,
              product_id |-> product_id, quantity |-> quantity]}

\* POST /api/cart
add_to_cart(u, data) ==
    /\ Serve("add_to_cart", u)
    /\ UNCHANGED <<users, categories, products, addresses, orders,
                   order_items, reviews>>
    /\ IF ~("product_id" \in DOMAIN data /\ "quantity" \in DOMAIN data)
       THEN /\ resp' = Response(400, "Product ID and quantity are required", 0)
            /\ UNCHANGED cart_items
       ELSE LET product_id == data.product_id
                quantity == data.quantity
                found == {p \in products : p.id = product_id /\ p.is_active}
            IN
            IF found = {}
            THEN /\ resp' = Response(404, "Product not found or unavailable", 0)
                 /\ UNCHANGED cart_items
            ELSE IF quantity <= 0
            THEN /\ resp' = Response(400, "Quantity must be greater than zero", 0)
                 /\ UNCHANGED cart_items
            ELSE IF StockShort(First(found), quantity)
            THEN /\ resp' = Response(400, "Not enough stock available", 0)
                 /\ UNCHANGED cart_items
            ELSE LET after == CartAfterAdd(u, product_id, quantity)
                     cart_item == First({c \in after : c.user_id = u
                                            /\ c.product_id = product_id})
                 IN
                 /\ cart_item.quantity <= MaxQuantity
                 /\ cart_items' = after
                 /\ resp' = Response(200, "Product added to cart", cart_item.id)

\* PUT /api/cart/<item_id>
update_cart_item(u, item_id, data) ==
    /\ Serve("update_cart_item", u)
    /\ UNCHANGED <<users, categories, products, addresses, orders,
                   order_items, reviews>>
    /\ LET found == OwnCartItem(item_id, u) IN
       IF found = {}
       THEN /\ resp' = Response(404, "Cart item not found", 0)
            /\ UNCHANGED cart_items
       ELSE IF ~("quantity" \in DOMAIN data)
       THEN /\ resp' = Response(400, "Quantity is required", 0)
            /\ UNCHANGED cart_items
       ELSE LET cart_item == First(found)
                quantity == data.quantity
            IN
            IF quantity <= 0
            THEN /\ resp' = Response(400, "Quantity must be greater than zero", 0)
                 /\ UNCHANGED cart_items
            ELSE IF StockShort(Row(products, cart_item.product_id), quantity)
            THEN /\ resp' = Response(400, "Not enough stock available", 0)
                 /\ UNCHANGED cart_items
            ELSE /\ quantity <= MaxQuantity
                 /\ cart_items' = Replace(cart_items, cart_item,
                                          [cart_item EXCEPT !.quantity = quantity])
                 /\ resp' = Response(200, "Cart item updated", cart_item.id)

\* DELETE /api/cart/<item_id>
remove_from_cart(u, item_id) ==
    /\ Serve("remove_from_cart", u)
    /\ UNCHANGED <<users, categories, products, addresses, orders,
                   order_items, reviews>>
    /\ LET found == OwnCartItem(item_id, u) IN
       IF found = {}
       THEN /\ resp' = Response(404, "Cart item not found", 0)
            /\ UNCHANGED cart_items
       ELSE /\ cart_items' = cart_items \ {First(found)}
            /\ resp' = Response(200, "Item removed from cart", 0)

-----------------------------------------------------------------------------
(* Order placement.                                                        *)

\* the addresses of that id, whoever owns them
AddressOfAnyone(address_id, user_id) ==
    {a \in addresses : a.id = address_id}

\* Address.query.filter_by(id=address_id, user_id=current_user_id)
OwnAddress(address_id, user_id) ==
    {a \in addresses : a.id = address_id /\ a.user_id = user_id}

\* data.get('billing_address_id', data['shipping_address_id'])
BillingAddressId(data) ==
    IF "billing_address_id" \in DOMAIN data
    THEN data.billing_address_id
    ELSE data.shipping_address_id

\* a check that looks at is_active only
UnavailableIfInactive(product, quantity) == ~product.is_active

\* the check a cart item must pass when the order is placed
Unavailable(product, quantity) ==
    ~product.is_active \/ StockShort(product, quantity)

\* a total that adds each price once, whatever the quantity
ItemTotalOfOne(price, quantity) == price

\* product.price * cart_item.quantity
ItemTotal(price, quantity) == price * quantity

\* the price copied onto an order item
PriceAtPurchase(product) == product.price

\* the session once the new order is flushed: the rows as the transaction
\* sees them, the order being built and the product that failed the check
\* (0 while none has)
SessionWithOrder(new_order) ==
    [products |-> products,
     orders |-> orders \cup {new_order},
     order_items |-> order_items,
     cart_items |-> cart_items,
     order_id |-> new_order.id,
     total_amount |-> 0,
     failed |-> 0]

\* one turn of the loop over the cart items, for a product that passed
SessionAfterItem(s, cart_item, product) ==
    [s EXCEPT
       !.order_items = @ \cup
           {[id |-> NextId(s.order_items), order_id |-> s.order_id,
             product_id |-> product.id, quantity |-> cart_item.quantity,
             price |-> PriceAtPurchase(product)]},
       !.products = Replace(@, product,
           [product EXCEPT !.stock = @ - cart_item.quantity]),
       !.total_amount = @ + ItemTotal(product.price, cart_item.quantity)]

\* for cart_item in cart_items: ... ; the loop stops at the first product
\* that is unavailable
RECURSIVE OrderLoop(_, _)
OrderLoop(items, s) ==
    IF items = <<>> THEN s
    ELSE LET cart_item == Head(items)
             product == Row(s.products, cart_item.product_id)
         IN
         IF Unavailable(product, cart_item.quantity)
         THEN [s EXCEPT !.failed = product.id]
         ELSE OrderLoop(Tail(items), SessionAfterItem(s, cart_item, product))

\* the total written onto every order of the user, not only the new one
SessionAtCommitTotalsAll(s, items) ==
    LET new_order == Row(s.orders, s.order_id) IN
    [s EXCEPT
       !.orders = {IF o.user_id = new_order.user_id
                   THEN [o EXCEPT !.total_amount = s.total_amount]
                   ELSE o : o \in @},
       !.cart_items = @ \ {items[i] : i \in DOMAIN items}]

\* the carts of all users cleared, not only the cart of the user who orders
SessionAtCommitClearsAll(s, items) ==
    LET new_order == Row(s.orders, s.order_id) IN
    [s EXCEPT
       !.orders = Replace(@, new_order,
           [new_order EXCEPT !.total_amount = s.total_amount]),
       !.cart_items = {}]

\* new_order.total_amount = total_amount, then the cart items are deleted
SessionAtCommit(s, items) ==
    LET new_order == Row(s.orders, s.order_id) IN
    [s EXCEPT
       !.orders = Replace(@, new_order,
           [new_order EXCEPT !.total_amount = s.total_amount]),
       !.cart_items = @ \ {items[i] : i \in DOMAIN items}]

\* db.session.commit(): the rows are those of the session
Commit(s) ==
    [products |-> s.products, orders |-> s.orders,
     order_items |-> s.order_items, cart_items |-> s.cart_items]

\* a rollback that keeps what the session has flushed
RollbackKeepsFlushed(s) == Commit(s)

\* db.session.rollback(): the rows are those of the last commit
Rollback(s) ==
    [products |-> products, orders |-> orders,
     order_items |-> order_items, cart_items |-> cart_items]

\* POST /api/orders
create_order(u, data) ==
    /\ Serve("create_order", u)
    /\ UNCHANGED <<users, categories, addresses, reviews>>
    /\ IF ~HasRow(users, u)
       THEN /\ resp' = Response(404, "Not found", 0)
            /\ UNCHANGED <<products, orders, order_items, cart_items>>
       ELSE IF ~("shipping_address_id" \in DOMAIN data)
       THEN /\ resp' = Response(400, "Shipping address is required", 0)
            /\ UNCHANGED <<products, orders, order_items, cart_items>>
       ELSE IF OwnAddress(data.shipping_address_id, u) = {}
       THEN /\ resp' = Response(400, "Invalid shipping address", 0)
            /\ UNCHANGED <<products, orders, order_items, cart_items>>
       ELSE IF OwnAddress(BillingAddressId(data), u) = {}
       THEN /\ resp' = Response(400, "Invalid billing address", 0)
            /\ UNCHANGED <<products, orders, order_items, cart_items>>
       ELSE IF CartItemsOf(u) = {}
       THEN /\ resp' = Response(400, "Cart is empty", 0)
            /\ UNCHANGED <<products, orders, order_items, cart_items>>
       ELSE LET items == All(CartItemsOf(u))
                new_order ==
                    [id |-> NextId(orders), user_id |-> u, status |-> "pending",
                     total_amount |-> 0,
                     shipping_address_id |->
                         First(OwnAddress(data.shipping_address_id, u)).id,
                     billing_address_id |->
                         First(OwnAddress(BillingAddressId(data), u)).id]
                s == OrderLoop(items, SessionWithOrder(new_order))
                db == IF s.failed # 0
                      THEN Rollback(s)
                      ELSE Commit(SessionAtCommit(s, items))
            IN
            /\ products' = db.products
            /\ orders' = db.orders
            /\ order_items' = db.order_items
            /\ cart_items' = db.cart_items
            /\ resp' = IF s.failed # 0
                       THEN Response(400,
                           "Product is not available or not enough in stock",
                           s.failed)
                       ELSE Response(201, "Order created successfully",
                                     new_order.id)

-----------------------------------------------------------------------------
(* Catalog routes of the administrator.                                    *)

\* a check that lets every known user through
IsKnownUser(u) == HasRow(users, u)

\* user.is_admin of the user the token names
IsAdmin(u) == Row(users, u).is_admin

\* the value of a field after an update: the payload's if it has the field
Updated(data, field, old) == IF field \in DOMAIN data THEN data[field] ELSE old

\* PUT /api/products/<product_id>
update_product(u, product_id, data) ==
    /\ Serve("update_product", u)
    /\ UNCHANGED <<users, categories, addresses, cart_items, orders,
                   order_items, reviews>>
    /\ IF ~HasRow(users, u)
       THEN /\ resp' = Response(404, "Not found", 0)
            /\ UNCHANGED products
       ELSE IF ~IsAdmin(u)
       THEN /\ resp' = Response(403, "Unauthorized", 0)
            /\ UNCHANGED products
       ELSE IF ~HasRow(products, product_id)
       THEN /\ resp' = Response(404, "Not found", 0)
            /\ UNCHANGED products
       ELSE LET product == Row(products, product_id) IN
            /\ products' = Replace(products, product,
                   [id |-> product.id,
                    price |-> Updated(data, "price", product.price),
                    stock |-> Updated(data, "stock", product.stock),
                    category_id |->
                        Updated(data, "category_id", product.category_id),
                    is_active |-> Updated(data, "is_active", product.is_active)])
            /\ resp' = Response(200, "Product updated successfully", product.id)

\* DELETE /api/products/<product_id>
delete_product(u, product_id) ==
    /\ Serve("delete_product", u)
    /\ UNCHANGED <<users, categories, addresses, cart_items, orders,
                   order_items, reviews>>
    /\ IF ~HasRow(users, u)
       THEN /\ resp' = Response(404, "Not found", 0)
            /\ UNCHANGED products
       ELSE IF ~IsAdmin(u)
       THEN /\ resp' = Response(403, "Unauthorized", 0)
            /\ UNCHANGED products
       ELSE IF ~HasRow(products, product_id)
       THEN /\ resp' = Response(404, "Not found", 0)
            /\ UNCHANGED products
       ELSE LET product == Row(products, product_id) IN
            /\ products' = Replace(products, product,
                                   [product EXCEPT !.is_active = FALSE])
            /\ resp' = Response(200, "Product deleted successfully", 0)

\* POST /api/products
create_product(u, data) ==
    /\ Serve("create_product", u)
    /\ UNCHANGED <<users, categories, addresses, cart_items, orders,
                   order_items, reviews>>
    /\ IF ~HasRow(users, u)
       THEN /\ resp' = Response(404, "Not found", 0)
            /\ UNCHANGED products
       ELSE IF ~IsAdmin(u)
       THEN /\ resp' = Response(403, "Unauthorized", 0)
            /\ UNCHANGED products
       ELSE IF ~({"name", "price", "stock", "category_id"} \subseteq DOMAIN data)
       THEN /\ resp' = Response(400, "Missing required fields", 0)
            /\ UNCHANGED products
       ELSE LET new_product ==
                    [id |-> NextId(products), price |-> data.price,
                     stock |-> data.stock, category_id |-> data.category_id,
                     is_active |-> TRUE]
            IN
            /\ products' = products \cup {new_product}
            /\ resp' = Response(201, "Product created successfully",
                                new_product.id)

\* POST /api/categories
create_category(u, data) ==
    /\ Serve("create_category", u)
    /\ UNCHANGED <<users, products, addresses, cart_items, orders,
                   order_items, reviews>>
    /\ IF ~HasRow(users, u)
       THEN /\ resp' = Response(404, "Not found", 0)
            /\ UNCHANGED categories
       ELSE IF ~IsAdmin(u)
       THEN /\ resp' = Response(403, "Unauthorized", 0)
            /\ UNCHANGED categories
       ELSE IF ~("name" \in DOMAIN data)
       THEN /\ resp' = Response(400, "Category name is required", 0)
            /\ UNCHANGED categories
       ELSE IF \E c \in categories : c.name = data.name
       THEN /\ resp' = Response(400, "Category already exists", 0)
            /\ UNCHANGED categories
       ELSE LET new_category ==
                    [id |-> NextId(categories), name |-> data.name]
            IN
            /\ categories' = categories \cup {new_category}
            /\ resp' = Response(201, "Category created successfully",
                                new_category.id)

-----------------------------------------------------------------------------
(* Catalog and order reads.  They change nothing; each is the response to  *)
(* a request in the current state.                                         *)

\* a listing that filters by category only
ListedWhateverActive(args) ==
    IF "category_id" \in DOMAIN args /\ args.category_id # 0
    THEN {p \in products : p.category_id = args.category_id}
    ELSE products

\* Product.query.filter_by(is_active=True), then filter_by(category_id=...)
\* when the category_id argument is given and not 0
ListedProducts(args) ==
    LET active == {p \in products : p.is_active} IN
    IF "category_id" \in DOMAIN args /\ args.category_id # 0
    THEN {p \in active : p.category_id = args.category_id}
    ELSE active

\* request.args.get('page', 1), request.args.get('per_page', 10)
PageArg(args) == IF "page" \in DOMAIN args THEN args.page ELSE 1

PerPageArg(args) == IF "per_page" \in DOMAIN args THEN args.per_page ELSE 10

\* query.paginate(page=page, per_page=per_page): the rows of one page
PageItems(rows, page, per_page) ==
    LET first == (page - 1) * per_page + 1
        last == IF page * per_page < Len(rows) THEN page * per_page
                ELSE Len(rows)
    IN  SubSeq(rows, first, last)

\* GET /products: the ids of the page, or 404 for a page out of range
get_products(args) ==
    LET page == PageArg(args)
        per_page == PerPageArg(args)
        rows == All(ListedProducts(args))
        items == PageItems(rows, page, per_page)
    IN
    IF page < 1 \/ per_page < 1 \/ (items = <<>> /\ page # 1)
    THEN [status |-> 404, products |-> {}, total |-> 0]
    ELSE [status |-> 200,
          products |-> {items[i].id : i \in DOMAIN items},
          total |-> Len(rows)]

\* GET /api/products/<product_id>
get_product(product_id) ==
    IF ~HasRow(products, product_id)
    THEN [status |-> 404, id |-> 0]
    ELSE [status |-> 200, id |-> Row(products, product_id).id]

\* GET /api/orders/<order_id>: the order's items
get_order_details(u, order_id) ==
    LET found == {o \in orders : o.id = order_id /\ o.user_id = u} IN
    IF found = {}
    THEN [status |-> 404, items |-> {}]
    ELSE LET order == First(found) IN
         [status |-> 200,
          items |-> {[id |-> i.id,
                      product_id |-> Row(products, i.product_id).id,
                      quantity |-> i.quantity, price |-> i.price] :
                     i \in {j \in order_items : j.order_id = order.id}}]

-----------------------------------------------------------------------------
(* Reviews and addresses.                                                  *)

\* a lookup that matches the review's own key against the product id
ReviewsByKey(user_id, product_id) ==
    {r \in reviews : r.user_id = user_id /\ r.id = product_id}

\* Review.query.filter_by(user_id=current_user_id, product_id=product_id)
ReviewsBy(user_id, product_id) ==
    {r \in reviews : r.user_id = user_id /\ r.product_id = product_id}

\* POST /api/products/<product_id>/reviews
create_review(u, product_id, data) ==
    /\ Serve("create_review", u)
    /\ UNCHANGED <<users, categories, products, addresses, cart_items,
                   orders, order_items>>
    /\ IF ~HasRow(products, product_id)
       THEN /\ resp' = Response(404, "Not found", 0)
            /\ UNCHANGED reviews
       ELSE IF ~("rating" \in DOMAIN data)
       THEN /\ resp' = Response(400, "Rating is required", 0)
            /\ UNCHANGED reviews
       ELSE IF data.rating < 1 \/ data.rating > 5
       THEN /\ resp' = Response(400, "Rating must be between 1 and 5", 0)
            /\ UNCHANGED reviews
       ELSE IF ReviewsBy(u, product_id) # {}
       THEN /\ resp' = Response(400, "You have already reviewed this product", 0)
            /\ UNCHANGED reviews
       ELSE LET new_review ==
                    [id |-> NextId(reviews), user_id |-> u,
                     product_id |-> product_id, rating |-> data.rating]
            IN
            /\ reviews' = reviews \cup {new_review}
            /\ resp' = Response(201, "Review created successfully",
                                new_review.id)

\* Address.query.filter_by(user_id=current_user_id)
AddressesOf(user_id) == {a \in addresses : a.user_id = user_id}

\* data.get('is_default', False)
IsDefaultArg(data) ==
    IF "is_default" \in DOMAIN data THEN data.is_default ELSE FALSE

\* a new address that is default only when the payload says so
BecomesDefaultIfAsked(user_id, data) == IsDefaultArg(data)

\* new_address.is_default or the user has no address yet
BecomesDefault(user_id, data) ==
    IsDefaultArg(data) \/ Cardinality(AddressesOf(user_id)) = 0

\* Address.query.filter_by(user_id=...).update({'is_default': False})
ClearDefault(user_id) ==
    {IF a.user_id = user_id THEN [a EXCEPT !.is_default = FALSE] ELSE a :
        a \in addresses}

\* POST /api/addresses
create_address(u, data) ==
    /\ Serve("create_address", u)
    /\ UNCHANGED <<users, categories, products, cart_items, orders,
                   order_items, reviews>>
    /\ IF ~({"street", "city", "country", "zip_code"} \subseteq DOMAIN data)
       THEN /\ resp' = Response(400, "Missing required fields", 0)
            /\ UNCHANGED addresses
       ELSE LET new_address ==
                    [id |-> NextId(addresses), user_id |-> u,
                     is_default |-> IsDefaultArg(data)]
            IN
            /\ addresses' =
                  IF BecomesDefault(u, data)
                  THEN ClearDefault(u) \cup
                          {[new_address EXCEPT !.is_default = TRUE]}
                  ELSE addresses \cup {new_address}
            /\ resp' = Response(201, "Address created successfully",
                                new_address.id)

-----------------------------------------------------------------------------
(* Requests.                                                               *)

\* path and payload ids: the rows that may exist and one that does not
ProductIdInputs == 1 .. 3
CartItemIdInputs == 1 .. 3
AddressIdInputs == 1 .. 2
QuantityInputs == 0 .. MaxQuantity + 1

\* a payload with no field
EmptyPayload == <<>>

AdminIds == {u.id : u \in {v \in SeedUsers : v.is_admin}}

\* the requests of shoppers and of the administrator that order placement
\* depends on: well-formed adds, orders to own or foreign addresses,
\* updates of price, stock and is_active
ShopAddPayloads == [product_id : {1, 2}, quantity : 1 .. MaxQuantity]

ShopOrderPayloads ==
    [shipping_address_id : AddressIdInputs]
        \cup [shipping_address_id : AddressIdInputs,
              billing_address_id : AddressIdInputs]

ShopUpdatePayloads ==
    [price : Prices] \cup [stock : Stocks] \cup [is_active : BOOLEAN]
        \cup [price : Prices, stock : Stocks]

Next ==
    \/ \E u \in UserIds, data \in ShopAddPayloads : add_to_cart(u, data)
    \/ \E u \in UserIds, data \in ShopOrderPayloads : create_order(u, data)
    \/ \E u \in AdminIds, product_id \in {1, 2}, data \in ShopUpdatePayloads :
          update_product(u, product_id, data)
    \/ \E u \in AdminIds, product_id \in {1, 2} : delete_product(u, product_id)

Spec == Init /\ [][Next]_vars

-----------------------------------------------------------------------------
(* The cart: every cart request, well formed or not, and order placement,  *)
(* over a catalog that only orders change.                                 *)

AddToCartPayloads ==
    [product_id : ProductIdInputs, quantity : QuantityInputs]
        \cup [product_id : {1}] \cup [quantity : {1}]

UpdateCartItemPayloads == [quantity : QuantityInputs] \cup {EmptyPayload}

Requests_Cart ==
    \/ \E u \in UserIds, data \in AddToCartPayloads : add_to_cart(u, data)
    \/ \E u \in UserIds, item_id \in CartItemIdInputs,
          data \in UpdateCartItemPayloads : update_cart_item(u, item_id, data)
    \/ \E u \in UserIds, item_id \in CartItemIdInputs :
          remove_from_cart(u, item_id)
    \/ \E u \in UserIds, data \in ShopOrderPayloads : create_order(u, data)

SpecCart == Init /\ [][Requests_Cart]_vars

-----------------------------------------------------------------------------
(* The catalog: the administrator's routes called by both users.           *)

CategoryIdInputs == 1 .. 2

CreateProductPayloads ==
    [name : {"n"}, price : {550}, stock : {1}, category_id : CategoryIdInputs]
        \cup [name : {"n"}, price : {550}] \cup {EmptyPayload}

CatalogUpdatePayloads ==
    [price : {550}] \cup [stock : {0}] \cup [is_active : BOOLEAN]
        \cup [category_id : CategoryIdInputs] \cup {EmptyPayload}

CreateCategoryPayloads == [name : {"c1", "c2"}] \cup {EmptyPayload}

Requests_Catalog ==
    \/ \E u \in UserIds, data \in CreateProductPayloads :
          create_product(u, data)
    \/ \E u \in UserIds, product_id \in ProductIdInputs,
          data \in CatalogUpdatePayloads : update_product(u, product_id, data)
    \/ \E u \in UserIds, product_id \in ProductIdInputs :
          delete_product(u, product_id)
    \/ \E u \in UserIds, data \in CreateCategoryPayloads :
          create_category(u, data)

SpecCatalog == Init /\ [][Requests_Catalog]_vars

-----------------------------------------------------------------------------
(* Reviews.                                                                *)

RatingInputs == {0, 1, 5, 6}

CreateReviewPayloads == [rating : RatingInputs] \cup {EmptyPayload}

Requests_Review ==
    \E u \in UserIds, product_id \in ProductIdInputs,
       data \in CreateReviewPayloads : create_review(u, product_id, data)

SpecReview == Init /\ [][Requests_Review]_vars

-----------------------------------------------------------------------------
(* Addresses, from users who own none.                                     *)

InitNoAddress ==
    /\ users = SeedUsers
    /\ categories = SeedCategories
    /\ products = SeedProducts
    /\ addresses = {}
    /\ cart_items = {}
    /\ orders = {}
    /\ order_items = {}
    /\ reviews = {}
    /\ req = NoRequest
    /\ resp = NoResponse
    /\ served = 0
    /\ sessions = [s \in Sessions |-> Idle]

CreateAddressPayloads ==
    [street : {"s"}, city : {"c"}, country : {"k"}, zip_code : {"z"}]
        \cup [street : {"s"}, city : {"c"}, country : {"k"}, zip_code : {"z"},
              is_default : BOOLEAN]
        \cup [street : {"s"}, is_default : BOOLEAN]

Requests_Address ==
    \E u \in UserIds, data \in CreateAddressPayloads : create_address(u, data)

SpecAddress == InitNoAddress /\ [][Requests_Address]_vars

-----------------------------------------------------------------------------
(* Order placement: properties of Spec.                                    *)

\* the user's cart holds an item whose product is inactive or short of stock
HasUnavailableItem(u) ==
    \E c \in CartItemsOf(u) :
        LET p == Row(products, c.product_id) IN
        ~p.is_active \/ p.stock < c.quantity

\* C1: a create-order request of a user whose cart holds an item whose
\* product is inactive or has less stock than the item's quantity is
\* answered 400, and the orders, the order items, the products (the stock
\* of the items that passed the check before it too) and the cart items
\* are what they were before the request.
OrderAllOrNothing ==
    [][(req'.op = "create_order" /\ HasUnavailableItem(req'.user_id))
          => /\ resp'.status = 400
             /\ orders' = orders
             /\ order_items' = order_items
             /\ products' = products
             /\ cart_items' = cart_items]_vars

\* an order refused for its second item, after a first item that passed
OrderRolledBack ==
    /\ req.op = "create_order"
    /\ resp.status = 400
    /\ resp.text = "Product is not available or not enough in stock"
    /\ \E c1, c2 \in CartItemsOf(req.user_id) :
          /\ c1.id < c2.id
          /\ c2.product_id = resp.id
          /\ Row(products, c1.product_id).is_active
          /\ Row(products, c1.product_id).stock >= c1.quantity

ItemsOfOrder(items, order_id) == {i \in items : i.order_id = order_id}

RECURSIVE SumOfItems(_)
SumOfItems(items) ==
    IF items = {} THEN 0
    ELSE LET i == CHOOSE j \in items : TRUE IN
         i.price * i.quantity + SumOfItems(items \ {i})

\* C2: the total_amount of every order is the sum of price x quantity over
\* its order items, and an order just created has exactly one order item
\* per cart item the user had, with the cart item's quantity and the price
\* the product had when the order was placed.
OrderTotalIsSumOfItems ==
    [][/\ \A o \in orders' :
             o.total_amount = SumOfItems(ItemsOfOrder(order_items', o.id))
       /\ (req'.op = "create_order" /\ resp'.status = 201)
          => LET mine == CartItemsOf(req'.user_id)
                 placed == ItemsOfOrder(order_items', resp'.id)
             IN
             /\ Cardinality(placed) = Cardinality(mine)
             /\ \A c \in mine : \E i \in placed :
                   /\ i.product_id = c.product_id
                   /\ i.quantity = c.quantity
                   /\ i.price = Row(products, c.product_id).price]_vars

\* the order of the example: two units at 10.00 and one at 5.50 make 25.50
OrderOfTwoItems ==
    /\ req.op = "create_order"
    /\ resp.status = 201
    /\ Row(orders, resp.id).total_amount = 2550
    /\ \E i, j \in ItemsOfOrder(order_items, resp.id) :
          /\ i.price = 1000 /\ i.quantity = 2
          /\ j.price = 550 /\ j.quantity = 1

\* C3: no request changes an order that exists: its row (status,
\* total_amount, address references) stays, and its order items, their
\* prices and quantities stay what they were.
OrdersImmutable ==
    [][\A o \in orders :
          /\ {n \in orders' : n.id = o.id} = {o}
          /\ ItemsOfOrder(order_items', o.id)
                = ItemsOfOrder(order_items, o.id)]_vars

\* a second order placed after the price of a product of the first changed
OrderOutlivesPriceChange ==
    \E o1, o2 \in orders :
        /\ o1.id < o2.id
        /\ \E i \in ItemsOfOrder(order_items, o1.id) :
              Row(products, i.product_id).price # i.price

\* C4: a create-order answered 201 takes the quantity of each cart item of
\* the user off the stock of its product, deletes the user's cart items, and
\* leaves the cart items of the other users and the products that are not
\* in the cart as they were.
OrderFrame ==
    [][(req'.op = "create_order" /\ resp'.status = 201)
          => LET u == req'.user_id
                 mine == CartItemsOf(u)
             IN
             /\ \A c \in mine :
                   Row(products', c.product_id).stock
                      = Row(products, c.product_id).stock - c.quantity
             /\ {c \in cart_items' : c.user_id = u} = {}
             /\ {c \in cart_items' : c.user_id # u}
                   = {c \in cart_items : c.user_id # u}
             /\ Ids(products') = Ids(products)
             /\ \A p \in products :
                   p.id \notin {c.product_id : c \in mine} => p \in products']_vars

\* an order of one product placed while another user has items in the cart
OrderBesideOtherCart ==
    /\ req.op = "create_order"
    /\ resp.status = 201
    /\ Cardinality(ItemsOfOrder(order_items, resp.id)) = 1
    /\ \E c \in cart_items : c.user_id # req.user_id

\* the query strings of GET /products
ListArgs ==
    [page : 0 .. 2, per_page : 1 .. 2] \cup [category_id : 0 .. 2]
        \cup [page : 1 .. 2, per_page : 1 .. 2, category_id : 1 .. 2]
        \cup {EmptyPayload}

-----------------------------------------------------------------------------
(* The cart: properties of SpecCart.                                       *)

\* add-to-cart payloads that name a product and a quantity
WellFormedAdds == [product_id : ProductIdInputs, quantity : QuantityInputs]

\* C6: no two cart items have the same user and product; an add-to-cart
\* answered 200 for a product the user's cart holds raises the quantity of
\* that item by the quantity requested and adds no row, and one for a
\* product the cart does not hold adds one row with the quantity requested.
OneCartItemPerProduct ==
    [][/\ \A c1, c2 \in cart_items' :
             (c1.user_id = c2.user_id /\ c1.product_id = c2.product_id)
                => c1 = c2
       /\ \A u \in UserIds, data \in WellFormedAdds :
             (add_to_cart(u, data) /\ resp'.status = 200)
                => LET held == {c \in cart_items : c.user_id = u
                                   /\ c.product_id = data.product_id}
                   IN
                   IF held # {}
                   THEN \E c \in held :
                           cart_items' = (cart_items \ {c}) \cup
                              {[id |-> c.id, user_id |-> u,
                                product_id |-> data.product_id,
                                quantity |-> c.quantity + data.quantity]}
                   ELSE \E n \in cart_items' :
                           /\ n.id \notin Ids(cart_items)
                           /\ cart_items' = cart_items \cup {n}
                           /\ n.user_id = u
                           /\ n.product_id = data.product_id
                           /\ n.quantity = data.quantity]_vars

\* an add that raised the quantity of an item: the item now asks for more
\* than the stock, which no single add or update is let to do
AddRaisedQuantity ==
    /\ req.op = "add_to_cart"
    /\ resp.status = 200
    /\ \E c \in cart_items :
          /\ c.id = resp.id
          /\ c.quantity > Row(products, c.product_id).stock
          /\ Cardinality(CartItemFor(c.user_id, c.product_id)) = 1

\* C7: an add-to-cart of an active product with a quantity greater than
\* the product's stock is answered 400 and leaves the cart items as they
\* were.
AddRejectsOverStock ==
    [][\A u \in UserIds, data \in WellFormedAdds :
          (/\ add_to_cart(u, data)
           /\ \E p \in products : /\ p.id = data.product_id
                                  /\ p.is_active
                                  /\ data.quantity > p.stock)
             => /\ resp'.status = 400
                /\ cart_items' = cart_items]_vars

\* an add refused for lack of stock while the cart holds items
AddRefusedForStock ==
    /\ req.op = "add_to_cart"
    /\ resp.status = 400
    /\ resp.text = "Not enough stock available"
    /\ cart_items # {}

-----------------------------------------------------------------------------
(* Reviews: properties of SpecReview.                                      *)

\* C8: no two reviews have the same user and product; a create-review by a
\* user who has a review of the product is answered 400 and leaves the
\* reviews as they were.
OneReviewPerProduct ==
    [][/\ \A r1, r2 \in reviews' :
             (r1.user_id = r2.user_id /\ r1.product_id = r2.product_id)
                => r1 = r2
       /\ \A u \in UserIds, product_id \in ProductIdInputs,
             data \in CreateReviewPayloads :
             (/\ create_review(u, product_id, data)
              /\ \E r \in reviews : r.user_id = u /\ r.product_id = product_id)
                => /\ resp'.status = 400
                   /\ reviews' = reviews]_vars

\* a second review refused
SecondReviewRefused ==
    /\ req.op = "create_review"
    /\ resp.status = 400
    /\ resp.text = "You have already reviewed this product"
    /\ \E r \in reviews : r.user_id = req.user_id

-----------------------------------------------------------------------------
(* Addresses: properties of SpecAddress.                                   *)

\* C5: after every create-address, each user who owns an address owns
\* exactly one whose is_default is true, and the first address of a user is
\* default whatever is_default the request carried.
OneDefaultAddress ==
    [][/\ \A u \in UserIds :
             {a \in addresses' : a.user_id = u} # {}
                => Cardinality({a \in addresses' :
                                   a.user_id = u /\ a.is_default}) = 1
       /\ \A u \in UserIds, data \in CreateAddressPayloads :
             (/\ create_address(u, data)
              /\ resp'.status = 201
              /\ {a \in addresses : a.user_id = u} = {})
                => \E a \in addresses' : /\ a.id = resp'.id
                                         /\ a.user_id = u
                                         /\ a.is_default]_vars

\* a later address took the default from the first, next to one that is
\* not default
DefaultMoved ==
    /\ req.op = "create_address"
    /\ resp.status = 201
    /\ \E a1, a2, a3 \in AddressesOf(req.user_id) :
          /\ a1.id < a2.id /\ a2.id < a3.id
          /\ ~a1.is_default /\ a2.is_default /\ ~a3.is_default

-----------------------------------------------------------------------------
(* The catalog: properties of SpecCatalog.                                 *)

AdminOps ==
    {"create_product", "update_product", "delete_product", "create_category"}

\* C10: create-product, update-product, delete-product and create-category
\* called by a user whose is_admin is false are answered 403, whatever the
\* payload and the product id, and leave the products and the categories
\* as they were.
AdminGate ==
    [][(/\ req'.op \in AdminOps
        /\ \E usr \in users : usr.id = req'.user_id /\ ~usr.is_admin)
          => /\ resp'.status = 403
             /\ products' = products
             /\ categories' = categories]_vars

\* a shopper refused on a catalog the administrator has added to
ShopperRefused ==
    /\ req.op \in AdminOps
    /\ resp.status = 403
    /\ ~Row(users, req.user_id).is_admin
    /\ Cardinality(products) > Cardinality(SeedProducts)
    /\ Cardinality(categories) > Cardinality(SeedCategories)

-----------------------------------------------------------------------------
(* Accounts: register and update-profile.                                  *)

\* User.query.filter_by(username=...) and filter_by(email=...)
UsersNamed(username) == {usr \in users : usr.username = username}

UsersWithEmail(email) == {usr \in users : usr.email = email}

\* data.get(field, default)
Get(data, field, default) ==
    IF field \in DOMAIN data THEN data[field] ELSE default

\* a handler that returns without db.session.commit() and keeps what it
\* assigned to the objects of its session
UncommittedIsKept(stored, session) == session

\* a handler that returns, or raises, without db.session.commit(): the
\* session ends with the request and the table is as stored
Uncommitted(stored, session) == stored

\* POST /register.  has_set_password: whether the User class has the
\* set_password method the handler calls; models.py defines none, and then
\* the call raises AttributeError before the user is added (500).
register(data, has_set_password) ==
    /\ Serve("register", 0)
    /\ UNCHANGED <<categories, products, addresses, cart_items, orders,
                   order_items, reviews>>
    /\ IF ~({"username", "email", "password"} \subseteq DOMAIN data)
       THEN /\ resp' = Response(400, "Missing required fields", 0)
            /\ UNCHANGED users
       ELSE IF UsersNamed(data.username) # {}
       THEN /\ resp' = Response(400, "Username already exists", 0)
            /\ UNCHANGED users
       ELSE IF UsersWithEmail(data.email) # {}
       THEN /\ resp' = Response(400, "Email already exists", 0)
            /\ UNCHANGED users
       ELSE LET new_user ==
                    [id |-> NextId(users), is_admin |-> FALSE,
                     username |-> data.username, email |-> data.email,
                     password |-> Hashed(data.password),
                     first_name |-> Get(data, "first_name", ""),
                     last_name |-> Get(data, "last_name", "")]
            IN IF ~has_set_password
               THEN /\ resp' = Response(500, "AttributeError", 0)
                    /\ users' = Uncommitted(users, users)
               ELSE /\ users' = users \cup {new_user}
                    /\ resp' = Response(201, "User registered successfully",
                                        new_user.id)

\* PUT /users/me
update_user_profile(u, data, has_set_password) ==
    /\ Serve("update_user_profile", u)
    /\ UNCHANGED <<categories, products, addresses, cart_items, orders,
                   order_items, reviews>>
    /\ IF ~HasRow(users, u)
       THEN /\ resp' = Response(404, "Not Found", 0)
            /\ UNCHANGED users
       ELSE LET user == Row(users, u)
                named == [user EXCEPT
                            !.first_name = Updated(data, "first_name", @),
                            !.last_name = Updated(data, "last_name", @)]
                mailed == [named EXCEPT !.email = Updated(data, "email", @)]
                hashed == IF "password" \in DOMAIN data
                          THEN [mailed EXCEPT !.password = Hashed(data.password)]
                          ELSE mailed
            IN IF /\ "email" \in DOMAIN data
                  /\ data.email # user.email
                  /\ UsersWithEmail(data.email) # {}
               THEN /\ resp' = Response(400, "Email already exists", 0)
                    /\ users' = Uncommitted(users, Replace(users, user, named))
               ELSE IF "password" \in DOMAIN data /\ ~has_set_password
               THEN /\ resp' = Response(500, "AttributeError", 0)
                    /\ users' = Uncommitted(users, Replace(users, user, mailed))
               ELSE /\ users' = Replace(users, user, hashed)
                    /\ resp' = Response(200, "Profile updated successfully", u)

Usernames == {"admin", "shopper", "carol"}

Emails == {"admin@shop", "shopper@shop", "carol@shop"}

ProfileUserIds == 1..3

RegisterPayloads ==
    [username : Usernames, email : Emails, password : {"pw3"}]
      \cup [username : Usernames, email : Emails, password : {"pw3"},
            first_name : {"Carol"}, last_name : {"Lee"}]
      \cup [username : {"carol"}, email : {"carol@shop"}]

UpdateProfilePayloads ==
    [email : Emails]
      \cup [first_name : {"Ann"}, last_name : {"Poe"}, email : Emails]
      \cup [first_name : {"Ann"}]
      \cup [last_name : {"Poe"}, password : {"pw4"}]

Requests_Accounts ==
    \/ \E data \in RegisterPayloads, has_set_password \in BOOLEAN :
          register(data, has_set_password)
    \/ \E u \in ProfileUserIds, data \in UpdateProfilePayloads,
          has_set_password \in BOOLEAN :
          update_user_profile(u, data, has_set_password)

SpecAccounts == Init /\ [][Requests_Accounts]_vars

\* the request registers a username or an email some user has
RegistersTaken(data) ==
    \/ "username" \in DOMAIN data /\ UsersNamed(data.username) # {}
    \/ "email" \in DOMAIN data /\ UsersWithEmail(data.email) # {}

\* the request changes the email to the email of another user
TakesEmail(u, data) ==
    /\ HasRow(users, u)
    /\ "email" \in DOMAIN data
    /\ \E usr \in users : usr.id # u /\ usr.email = data.email

UniqueAccounts(rows) ==
    \A usr1, usr2 \in rows :
        (usr1.username = usr2.username \/ usr1.email = usr2.email)
            => usr1 = usr2

\* C11: through register and update-profile requests no two users share a
\* username and no two share an email; a registration with a username or
\* an email some user has is answered 400 and creates no user; an
\* update-profile that changes the email to another user's email is
\* answered 400 and leaves the stored users, the first_name and last_name
\* of the same request included, as they were.
AccountsUnique ==
    [][/\ UniqueAccounts(users')
       /\ \A data \in RegisterPayloads, has_set_password \in BOOLEAN :
            (register(data, has_set_password) /\ RegistersTaken(data))
              => resp'.status = 400 /\ users' = users
       /\ \A u \in ProfileUserIds, data \in UpdateProfilePayloads,
             has_set_password \in BOOLEAN :
            (update_user_profile(u, data, has_set_password) /\ TakesEmail(u, data))
              => resp'.status = 400 /\ users' = users]_vars

\* a registered user is refused the email of another user in a request
\* that also sends a first_name
EmailRefused ==
    /\ req.op = "update_user_profile"
    /\ resp.status = 400
    /\ Cardinality(users) > Cardinality(SeedUsers)
    /\ \E usr \in users : usr.first_name = "Ann"
    /\ \E usr \in users : usr.id = req.user_id /\ usr.first_name # "Ann"

-----------------------------------------------------------------------------
(* Checkout: the addresses of an order.                                    *)

CheckoutAddressIds == 1 .. 3

CheckoutAddPayloads == [product_id : {1}, quantity : {1}]

CheckoutAddressPayloads ==
    [street : {"s"}, city : {"c"}, country : {"k"}, zip_code : {"z"}]
        \cup [street : {"s"}, city : {"c"}, country : {"k"}, zip_code : {"z"},
              is_default : {TRUE}]

CheckoutOrderPayloads ==
    [shipping_address_id : CheckoutAddressIds]
        \cup [shipping_address_id : CheckoutAddressIds,
              billing_address_id : CheckoutAddressIds]
        \cup [billing_address_id : CheckoutAddressIds]
        \cup {EmptyPayload}

Requests_Checkout ==
    \/ \E u \in UserIds, data \in CheckoutAddPayloads : add_to_cart(u, data)
    \/ \E u \in UserIds, data \in CheckoutAddressPayloads :
          create_address(u, data)
    \/ \E u \in UserIds, data \in CheckoutOrderPayloads : create_order(u, data)

SpecCheckout == Init /\ [][Requests_Checkout]_vars

\* no address of that id is the user's: there is none, or it is another's
NotOwnAddress(address_id, user_id) ==
    ~\E a \in addresses : a.id = address_id /\ a.user_id = user_id

NamesForeignAddress(u, data) ==
    \E field \in {"shipping_address_id", "billing_address_id"} \cap DOMAIN data :
        NotOwnAddress(data[field], u)

\* C12: the shipping and the billing address of every order are addresses
\* of the order's user; a create-order that names an address id that does
\* not exist or is another user's is answered 400 and creates no order;
\* a create-order without billing_address_id takes the shipping address
\* as the billing address.
OrderAddressesAreOwn ==
    [][/\ \A o \in orders' :
            \A address_id \in {o.shipping_address_id, o.billing_address_id} :
                \E a \in addresses' :
                    a.id = address_id /\ a.user_id = o.user_id
       /\ \A u \in UserIds, data \in CheckoutOrderPayloads :
            create_order(u, data) =>
              /\ NamesForeignAddress(u, data)
                    => resp'.status = 400 /\ orders' = orders
              /\ (resp'.status = 201 /\ ~("billing_address_id" \in DOMAIN data))
                    => \E o \in orders' \ orders :
                          /\ o.id = resp'.id
                          /\ o.shipping_address_id = data.shipping_address_id
                          /\ o.billing_address_id = data.shipping_address_id]_vars

\* an order billed to a second address of its user exists, and the user's
\* next order is refused for an address of the other user
ForeignAddressRefused ==
    /\ req.op = "create_order"
    /\ resp.status = 400
    /\ resp.text \in {"Invalid shipping address", "Invalid billing address"}
    /\ CartItemsOf(req.user_id) # {}
    /\ \E o \in orders :
          /\ o.user_id = req.user_id
          /\ o.billing_address_id # o.shipping_address_id

-----------------------------------------------------------------------------
(* Cart isolation: the carts of two users side by side.                    *)

IsolationAddPayloads == [product_id : {1, 2}, quantity : {1}]

IsolationUpdatePayloads == [quantity : {0, 2}] \cup {EmptyPayload}

Requests_CartIsolation ==
    \/ \E u \in UserIds, data \in IsolationAddPayloads : add_to_cart(u, data)
    \/ \E u \in UserIds, item_id \in CartItemIdInputs,
          data \in IsolationUpdatePayloads : update_cart_item(u, item_id, data)
    \/ \E u \in UserIds, item_id \in CartItemIdInputs :
          remove_from_cart(u, item_id)

SpecCartIsolation == Init /\ [][Requests_CartIsolation]_vars

CartOps == {"add_to_cart", "update_cart_item", "remove_from_cart"}

\* the path names no cart item of the user: none has the id, or another
\* user's item has it
NotOwnCartItem(item_id, u) ==
    ~\E c \in cart_items : c.id = item_id /\ c.user_id = u

CartItemNotFound == Response(404, "Cart item not found", 0)

\* C13: update-cart-item and remove-from-cart with the id of another
\* user's cart item are answered the 404 "Cart item not found" an id of
\* no cart item gets, and leave the cart items as they were; no cart
\* request of a user changes or removes a cart item of another user.
CartIsolation ==
    [][/\ req'.op \in CartOps =>
            \A c \in cart_items : c.user_id # req'.user_id => c \in cart_items'
       /\ \A u \in UserIds, item_id \in CartItemIdInputs :
            NotOwnCartItem(item_id, u) =>
              /\ remove_from_cart(u, item_id)
                    => resp' = CartItemNotFound /\ cart_items' = cart_items
              /\ \A data \in IsolationUpdatePayloads :
                    update_cart_item(u, item_id, data)
                    => resp' = CartItemNotFound /\ cart_items' = cart_items]_vars

\* every id a path can name is the id of a cart item, both users own some,
\* and the last update or removal was answered 404: it named an item of
\* the other user
ForeignCartItemRefused ==
    /\ req.op \in {"update_cart_item", "remove_from_cart"}
    /\ resp = CartItemNotFound
    /\ CartItemIdInputs \subseteq Ids(cart_items)
    /\ \A u \in UserIds : CartItemsOf(u) # {}

-----------------------------------------------------------------------------
(* Referential integrity: property of SpecCatalog.                         *)

\* C14: in every reachable state every foreign key names an existing row:
\* the category_id of every product, as create-product and update-product
\* write it, is the id of an existing category (the products of the model
\* always carry one), and every cart item, order item and review names an
\* existing product and an existing user (an order item through its order).
ReferentialIntegrity ==
    /\ \A p \in products : HasRow(categories, p.category_id)
    /\ \A c \in cart_items :
          HasRow(products, c.product_id) /\ HasRow(users, c.user_id)
    /\ \A r \in reviews :
          HasRow(products, r.product_id) /\ HasRow(users, r.user_id)
    /\ \A o \in orders : HasRow(users, o.user_id)
    /\ \A i \in order_items :
          HasRow(products, i.product_id) /\ HasRow(orders, i.order_id)

-----------------------------------------------------------------------------
(* Addresses, the statements of two requests interleaved.  A statement     *)
(* reads the rows committed when it runs (READ COMMITTED, and what SQLite  *)
(* shows a reader); what a request has written shows to the others when    *)
(* it commits.  A database that makes the second writer wait for the       *)
(* first to commit (SQLite, or a row lock) only takes some of these        *)
(* interleavings away.                                                     *)

\* the validation, the new Address object and the count() of the condition
create_address_count(s, u, data) ==
    /\ sessions[s] = Idle
    /\ Take("create_address", u)
    /\ UNCHANGED <<users, categories, products, addresses, cart_items,
                   orders, order_items, reviews>>
    /\ IF ~({"street", "city", "country", "zip_code"} \subseteq DOMAIN data)
       THEN /\ resp' = Response(400, "Missing required fields", 0)
            /\ UNCHANGED sessions
       ELSE /\ sessions' = [sessions EXCEPT ![s] =
                  [pc |-> IF BecomesDefault(u, data) THEN "update" ELSE "add",
                   user_id |-> u,
                   is_default |-> BecomesDefault(u, data),
                   cleared |-> {}]]
            /\ UNCHANGED resp

\* Address.query.filter_by(user_id=...).update({'is_default': False}): the
\* statement reaches the user's rows committed by now, in the transaction
\* of the request
create_address_update(s) ==
    /\ sessions[s].pc = "update"
    /\ sessions' = [sessions EXCEPT
          ![s].pc = "add",
          ![s].cleared = Ids(AddressesOf(sessions[s].user_id))]
    /\ UNCHANGED <<users, categories, products, addresses, cart_items,
                   orders, order_items, reviews, req, resp, served>>

\* db.session.add(new_address); db.session.commit()
create_address_commit(s) ==
    /\ sessions[s].pc = "add"
    /\ LET new_address ==
               [id |-> NextId(addresses), user_id |-> sessions[s].user_id,
                is_default |-> sessions[s].is_default]
       IN
       /\ addresses' =
             {IF a.id \in sessions[s].cleared
              THEN [a EXCEPT !.is_default = FALSE] ELSE a : a \in addresses}
                \cup {new_address}
       /\ resp' = Response(201, "Address created successfully", new_address.id)
    /\ sessions' = [sessions EXCEPT ![s] = Idle]
    /\ UNCHANGED <<users, categories, products, cart_items, orders,
                   order_items, reviews, req, served>>

Requests_AddressRace ==
    \/ \E s \in Sessions, u \in UserIds, data \in CreateAddressPayloads :
          create_address_count(s, u, data)
    \/ \E s \in Sessions : create_address_update(s)
    \/ \E s \in Sessions : create_address_commit(s)

SpecAddressRace == InitNoAddress /\ [][Requests_AddressRace]_vars

\* C15: default-address assignment is atomic with respect to concurrent
\* requests: once the create-address requests of a user whose statements
\* interleaved have all committed, at most one address of the user is the
\* default.
OneDefaultWhenInterleaved ==
    \A u \in UserIds :
        (\A s \in Sessions : sessions[s] # Idle => sessions[s].user_id # u)
            => Cardinality({a \in AddressesOf(u) : a.is_default}) <= 1

-----------------------------------------------------------------------------
(* Order placement, the statements of two requests of different users      *)
(* interleaved.  A request reads the rows committed when the statement     *)
(* runs and keeps the objects it has loaded; its writes reach the tables   *)
(* when it commits.  The UPDATE of a product row waits for a request that  *)
(* has written the row and not committed, which orders the commit steps    *)
(* and nothing else while a cart holds one product.                        *)

\* the requests in flight
InFlight == {s \in Sessions : sessions[s] # Idle}

\* the key the flush gives the new order: keys handed to orders not yet
\* committed are not handed out again
NextOrderId ==
    NextId(orders \cup {sessions[s].order : s \in InFlight})

\* lines 553-592: the user, the addresses, the cart items and the flush of
\* the new order
create_order_flush(s, u, data) ==
    /\ sessions[s] = Idle
    /\ \A t \in InFlight : sessions[t].user_id # u
    /\ Take("create_order", u)
    /\ UNCHANGED <<users, categories, products, addresses, cart_items,
                   orders, order_items, reviews>>
    /\ IF ~HasRow(users, u)
       THEN /\ resp' = Response(404, "Not found", 0)
            /\ UNCHANGED sessions
       ELSE IF ~("shipping_address_id" \in DOMAIN data)
       THEN /\ resp' = Response(400, "Shipping address is required", 0)
            /\ UNCHANGED sessions
       ELSE IF OwnAddress(data.shipping_address_id, u) = {}
       THEN /\ resp' = Response(400, "Invalid shipping address", 0)
            /\ UNCHANGED sessions
       ELSE IF OwnAddress(BillingAddressId(data), u) = {}
       THEN /\ resp' = Response(400, "Invalid billing address", 0)
            /\ UNCHANGED sessions
       ELSE IF CartItemsOf(u) = {}
       THEN /\ resp' = Response(400, "Cart is empty", 0)
            /\ UNCHANGED sessions
       ELSE /\ sessions' = [sessions EXCEPT ![s] =
                  [pc |-> "loop",
                   user_id |-> u,
                   order |->
                       [id |-> NextOrderId, user_id |-> u,
                        status |-> "pending", total_amount |-> 0,
                        shipping_address_id |->
                            First(OwnAddress(data.shipping_address_id, u)).id,
                        billing_address_id |->
                            First(OwnAddress(BillingAddressId(data), u)).id],
                   items |-> All(CartItemsOf(u)),
                   at |-> 1,
                   products |-> {},
                   order_items |-> <<>>,
                   total_amount |-> 0]]
            /\ UNCHANGED resp

\* cart_item.product: the object the session holds, or the committed row
Loaded(s, product_id) ==
    IF HasRow(sessions[s].products, product_id)
    THEN Row(sessions[s].products, product_id)
    ELSE Row(products, product_id)

\* lines 595-620: one turn of the loop; a product that fails the check
\* ends the request with a rollback
create_order_item(s) ==
    /\ sessions[s] # Idle
    /\ sessions[s].pc = "loop"
    /\ UNCHANGED <<users, categories, products, addresses, cart_items,
                   orders, order_items, reviews, req, served>>
    /\ LET cart_item == sessions[s].items[sessions[s].at]
           product == Loaded(s, cart_item.product_id)
       IN
       IF Unavailable(product, cart_item.quantity)
       THEN /\ sessions' = [sessions EXCEPT ![s] = Idle]
            /\ resp' = Response(400,
                   "Product is not available or not enough in stock",
                   product.id)
       ELSE /\ sessions' = [sessions EXCEPT
                  ![s].products =
                      (@ \ {product}) \cup
                          {[product EXCEPT !.stock = @ - cart_item.quantity]},
                  ![s].order_items = Append(@,
                      [product_id |-> product.id,
                       quantity |-> cart_item.quantity,
                       price |-> PriceAtPurchase(product)]),
                  ![s].total_amount =
                      @ + ItemTotal(product.price, cart_item.quantity),
                  ![s].at = @ + 1,
                  ![s].pc = IF sessions[s].at = Len(sessions[s].items)
                            THEN "commit" ELSE "loop"]
            /\ UNCHANGED resp

\* an UPDATE that leaves the committed row as it is
FlushedIsLost(product, committed) == committed

\* UPDATE products SET stock = <the stock of the session's object>
Flushed(product, committed) == [committed EXCEPT !.stock = product.stock]

\* lines 622-640: the total, the deletion of the cart items and the commit
create_order_commit(s) ==
    /\ sessions[s] # Idle
    /\ sessions[s].pc = "commit"
    /\ LET ses == sessions[s]
           new_items ==
               {[id |-> NextId(order_items) + i - 1,
                 order_id |-> ses.order.id,
                 product_id |-> ses.order_items[i].product_id,
                 quantity |-> ses.order_items[i].quantity,
                 price |-> ses.order_items[i].price] :
                    i \in DOMAIN ses.order_items}
       IN
       /\ products' =
             {IF HasRow(ses.products, p.id)
              THEN Flushed(Row(ses.products, p.id), p) ELSE p : p \in products}
       /\ orders' = orders \cup
             {[ses.order EXCEPT !.total_amount = ses.total_amount]}
       /\ order_items' = order_items \cup new_items
       /\ cart_items' =
             {c \in cart_items :
                 ~\E i \in DOMAIN ses.items : ses.items[i].id = c.id}
       /\ resp' = Response(201, "Order created successfully", ses.order.id)
    /\ sessions' = [sessions EXCEPT ![s] = Idle]
    /\ UNCHANGED <<users, categories, addresses, reviews, req, served>>

RaceAddPayloads == [product_id : {1}, quantity : 1 .. MaxQuantity]

RaceOrderPayloads == [shipping_address_id : AddressIdInputs]

Requests_OrderRace ==
    \/ \E u \in UserIds, data \in RaceAddPayloads : add_to_cart(u, data)
    \/ \E s \in Sessions, u \in UserIds, data \in RaceOrderPayloads :
          create_order_flush(s, u, data)
    \/ \E s \in Sessions : create_order_item(s)
    \/ \E s \in Sessions : create_order_commit(s)

SpecOrderRace == Init /\ [][Requests_OrderRace]_vars

\* the units of a product on the order items
UnitsOrdered(product_id) ==
    LET RECURSIVE Sum(_)
        Sum(rows) ==
            IF rows = {} THEN 0
            ELSE LET r == First(rows) IN r.quantity + Sum(rows \ {r})
    IN Sum({i \in order_items : i.product_id = product_id})

\* C16: stock checks are not serialised: a create-order that has passed
\* the re-check of its cart items commits whatever another user's request
\* has committed since it read the stock, and writes the stock it computed
\* from what it read; so two requests can both pass the re-check and both
\* commit although their quantities together exceed the stock.
RecheckNotSerialised ==
    [][\A s \in Sessions :
          (sessions[s] # Idle /\ sessions[s].pc = "commit"
              /\ sessions'[s] = Idle)
            => /\ resp' = Response(201, "Order created successfully",
                                   sessions[s].order.id)
               /\ HasRow(orders', sessions[s].order.id)
               /\ \A q \in sessions[s].products :
                     Row(products', q.id).stock = q.stock]_vars

\* orders of two users hold more units of a product than it ever had in
\* stock, and both requests were answered 201
Oversold ==
    /\ resp.status = 201
    /\ sessions = [s \in Sessions |-> Idle]
    /\ \E o1, o2 \in orders : o1.user_id # o2.user_id
    /\ \E p \in SeedProducts :
          /\ Cardinality({o \in orders :
                 \E i \in order_items :
                     i.order_id = o.id /\ i.product_id = p.id}) = 2
          /\ UnitsOrdered(p.id) > p.stock
          /\ Row(products, p.id).stock >= 0

-----------------------------------------------------------------------------
(* Stock: property of Spec, where requests are served one at a time and    *)
(* the administrator sets stock to values of Stocks.                       *)

\* C17: with requests served one at a time and administrators setting
\* only non-negative stock, the stock of no product is ever negative.
StockNeverNegative == \A p \in products : p.stock >= 0

\* orders have taken the last unit of an active product, and the order of
\* a cart that holds it is refused for that product
SoldOutRefused ==
    /\ req.op = "create_order"
    /\ resp.status = 400
    /\ HasRow(products, resp.id)
    /\ Row(products, resp.id).is_active
    /\ Row(products, resp.id).stock = 0
    /\ UnitsOrdered(resp.id) > 0
    /\ \E c \in CartItemsOf(req.user_id) : c.product_id = resp.id

====
